---- MODULE Spec2Model ----
(***************************************************************************)
(* State-machine model of src/components/RightPanel.tsx: the zoom/pan      *)
(* canvas (RightPanel), the text overlay (DraggableText), the crop box     *)
(* (CropBox), the before/after slider (ImageComparator) and the rasterised *)
(* export (DownloadModal + handleDownloadImage).                           *)
(*                                                                         *)
(* JavaScript numbers are modelled as exact rationals <<n, d>> (d > 0,     *)
(* lowest terms), so that divisions such as (mouseX - x) / scale are       *)
(* computed, not assumed away.  Rounding of IEEE doubles is not modelled.  *)
(***************************************************************************)
EXTENDS Integers, Sequences, FiniteSets, TLC

(***************************************************************************)
(* Bounds of the model (not program constants).                            *)
(***************************************************************************)
\* pointer-down events per behaviour
MaxGestures == 1
\* wheel events per behaviour
MaxWheels == 1
\* exports started per behaviour
MaxExports == 2
\* left/top of the #imageContainer element in client coordinates
ContainerLeft == 10
ContainerTop == 0
\* layout size of the text overlay box at scale 1, in CSS pixels
TextBoxW == 20
TextBoxH == 10

(***************************************************************************)
(* Exact rational arithmetic (the JavaScript number operations used).      *)
(***************************************************************************)
Abs(n) == IF n < 0 THEN -n ELSE n

RECURSIVE GCD(_, _)
GCD(a, b) == IF b = 0 THEN a ELSE GCD(b, a % b)

Norm(n, d) ==
    LET s == IF d < 0 THEN -1 ELSE 1
        g == GCD(Abs(n), Abs(d))
    IN  <<(s * n) \div g, (s * d) \div g>>

Z(n) == <<n, 1>>
RAdd(a, b) == Norm(a[1] * b[2] + b[1] * a[2], a[2] * b[2])
RSub(a, b) == Norm(a[1] * b[2] - b[1] * a[2], a[2] * b[2])
RMul(a, b) == Norm(a[1] * b[1], a[2] * b[2])
\* a / b for b # 0
RDiv(a, b) == Norm(a[1] * b[2], a[2] * b[1])
RLe(a, b) == a[1] * b[2] <= b[1] * a[2]
RLt(a, b) == a[1] * b[2] < b[1] * a[2]
\* Math.max / Math.min
RMax(a, b) == IF RLe(a, b) THEN b ELSE a
RMin(a, b) == IF RLe(a, b) THEN a ELSE b

(***************************************************************************)
(* Input domains.                                                          *)
(***************************************************************************)
\* WheelEvent.deltaY
WheelDeltas == {-10000, -500, 1000}
\* MouseEvent.button: 0 primary, 2 secondary
Buttons == {0, 2}
Sources == {"mouse", "touch"}
\* clientWidth x clientHeight of #imageContainer
ContainerSizes == {<<100, 100>>, <<200, 100>>}
\* naturalWidth x naturalHeight of the generated image
NaturalSizes == {<<100, 100>>, <<200, 100>>}
Handles ==
    {"top-left", "top-right", "bottom-left", "bottom-right",
     "top", "bottom", "left", "right"}

VARIABLES
    props,                \* RightPanel props that select what is mounted
    container,            \* <<clientWidth, clientHeight>> of #imageContainer
    img,                  \* the <img>: [complete, naturalWidth, naturalHeight]
    transform,            \* useState {scale, x, y}
    initialImageMetrics,  \* useState {width, height, initialX, initialY}
    isPanning,            \* useState
    panStart,             \* useRef {startX, startY, initialX, initialY}
    textOverlay,          \* prop: [text, x, y] (color/size/font kept in attrs)
    textIsDragging,       \* DraggableText useState isDragging
    dragStartPos,         \* DraggableText useRef {x, y, textX, textY}
    cropState,            \* prop: {x, y, width, height} in percent
    cropIsDragging,       \* CropBox useState isDragging
    resizeHandle,         \* CropBox useState resizeHandle ("" models null)
    dragStart,            \* CropBox useRef {mouseX, mouseY, x, y, width, height}
    sliderPosition,       \* ImageComparator useState
    cmpIsDragging,        \* ImageComparator useRef isDragging
    pointer,              \* client position of the last pointer event
    ev,                   \* the type of the last event delivered
    preGesture,           \* history: the last pointer-down (until the pointer is
                          \* released) and the subject state it found
    gestures,             \* number of pointer-down events so far
    wheels,               \* number of wheel events so far
    isDownloadModalOpen,  \* useState
    isProcessingDownload, \* useState
    renderedProcessing,   \* isProcessingDownload as captured by the last render
    modalOptions,         \* DownloadModal useState {format, scale, quality}
    pending,              \* exports awaiting image.onload / onerror, oldest first
    lastCanvas,           \* the canvas of the last export that reached onload
    downloads,            \* link.click() calls so far
    alerts,               \* alert() calls so far
    exports,              \* exports started so far
    lastAlert,            \* the message of the last alert()
    lastExport,           \* the last export that settled: the scale and natural size
                          \* it read to size its canvas, the calls it made in order
    panelMounted,         \* RightPanel is in the React tree
    fitEffect,            \* what the last run of the fit effect captured and observes
    listeners             \* window.addEventListener registrations in force

canvasVars == <<container, img, transform, initialImageMetrics, isPanning, panStart>>
textVars == <<textOverlay, textIsDragging, dragStartPos>>
cropVars == <<cropState, cropIsDragging, resizeHandle, dragStart>>
cmpVars == <<sliderPosition, cmpIsDragging>>
auxVars == <<pointer, ev, preGesture, gestures, wheels>>
exportVars ==
    <<isDownloadModalOpen, isProcessingDownload, renderedProcessing, modalOptions,
      pending, lastCanvas, downloads, alerts, exports, lastAlert, lastExport>>
lifeVars == <<panelMounted, fitEffect>>
vars ==
    <<props, canvasVars, textVars, cropVars, cmpVars, auxVars, exportVars, lifeVars,
      listeners>>

(***************************************************************************)
(* What RightPanel mounts, from its props.                                 *)
(***************************************************************************)
hasResult == props.currentImage \/ props.generatedVideoUrl
isClientSideToolActive ==
    props.editFunction = "text-overlay" \/ props.editFunction = "crop"
\* faulty variant: the comparator is not suppressed by the client-side tools
showComparatorIgnoringTools ==
    /\ props.showComparator
    /\ props.comparisonImage
    /\ props.currentImage
    /\ ~props.isMaskingActive

showComparator ==
    /\ props.showComparator
    /\ props.comparisonImage
    /\ props.currentImage
    /\ ~isClientSideToolActive
    /\ ~props.isMaskingActive
showTextOverlay ==
    /\ props.mode = "edit"
    /\ props.editFunction = "text-overlay"
    /\ textOverlay.text # ""
    /\ props.currentImage
showCropBox ==
    props.mode = "edit" /\ props.editFunction = "crop" /\ props.currentImage
showMaskingCanvas ==
    /\ props.mode = "edit"
    /\ props.editFunction = "add-remove"
    /\ props.currentImage
    /\ props.isMaskingActive
canZoomPan == hasResult /\ ~props.generatedVideoUrl /\ ~showComparator

\* the zoomable <div> holding the <img> is in the tree
\* #imageContainer is in the tree
ContainerMounted == panelMounted /\ hasResult /\ ~props.isLoading

CanvasMounted ==
    /\ panelMounted
    /\ hasResult
    /\ ~props.isLoading
    /\ ~props.generatedVideoUrl
    /\ ~showComparator
    /\ props.currentImage
ComparatorMounted ==
    /\ panelMounted
    /\ hasResult /\ ~props.isLoading /\ ~props.generatedVideoUrl /\ showComparator
TextMounted == CanvasMounted /\ showTextOverlay
CropMounted == CanvasMounted /\ showCropBox
MaskMounted == CanvasMounted /\ showMaskingCanvas

\* faulty variant: only the scale is compared
isTransformedScaleOnly == canZoomPan /\ transform.scale # Z(1)

isTransformed ==
    /\ canZoomPan
    /\ \/ transform.scale # Z(1)
       \/ transform.x # initialImageMetrics.initialX
       \/ transform.y # initialImageMetrics.initialY

\* the "Fit to Screen" button is rendered
ResetButtonShown == ContainerMounted /\ isTransformed

(***************************************************************************)
(* Geometry read through getBoundingClientRect().                          *)
(***************************************************************************)
\* toolWrapperRef: fills the zoomable div, so it carries the CSS transform
ToolRect ==
    [left   |-> RAdd(Z(ContainerLeft), transform.x),
     top    |-> RAdd(Z(ContainerTop), transform.y),
     width  |-> RMul(initialImageMetrics.width, transform.scale),
     height |-> RMul(initialImageMetrics.height, transform.scale)]

\* textRef: left/top x%/y% of the wrapper, shifted by translate(-50%, -50%)
TextRect ==
    LET w == RMul(Z(TextBoxW), transform.scale)
        h == RMul(Z(TextBoxH), transform.scale)
    IN  [left |-> RSub(RAdd(ToolRect.left,
                            RDiv(RMul(textOverlay.x, ToolRect.width), Z(100))),
                       RDiv(w, Z(2))),
         top  |-> RSub(RAdd(ToolRect.top,
                            RDiv(RMul(textOverlay.y, ToolRect.height), Z(100))),
                       RDiv(h, Z(2)))]

\* ImageComparator containerRef: max-w-full inside #imageContainer
CmpRect == [left |-> Z(ContainerLeft), width |-> Z(container[1])]

(***************************************************************************)
(* RightPanel: fit, reset, wheel zoom.                                     *)
(***************************************************************************)
\* faulty variant: the fitted box is centred vertically as well
FitMetricsCentred(nat, cont) ==
    LET iRatio == RDiv(Z(nat[1]), Z(nat[2]))
        wider  == IF cont[2] = 0 THEN cont[1] > 0
                  ELSE RLt(iRatio, RDiv(Z(cont[1]), Z(cont[2])))
        height == IF wider THEN Z(cont[2]) ELSE RDiv(Z(cont[1]), iRatio)
        width  == IF wider THEN RMul(Z(cont[2]), iRatio) ELSE Z(cont[1])
        left   == RDiv(RSub(Z(cont[1]), width), Z(2))
    IN  [width |-> width, height |-> height, initialX |-> left,
         initialY |-> RDiv(RSub(Z(cont[2]), height), Z(2))]

\* updateFit's metrics for a loaded image.  `cRatio > iRatio` with a
\* clientHeight of 0 compares Infinity (true) or, for 0 / 0, NaN (false).
FitMetrics(nat, cont) ==
    LET iRatio == RDiv(Z(nat[1]), Z(nat[2]))
        wider  == IF cont[2] = 0 THEN cont[1] > 0
                  ELSE RLt(iRatio, RDiv(Z(cont[1]), Z(cont[2])))
        height == IF wider THEN Z(cont[2]) ELSE RDiv(Z(cont[1]), iRatio)
        width  == IF wider THEN RMul(Z(cont[2]), iRatio) ELSE Z(cont[1])
        left   == RDiv(RSub(Z(cont[1]), width), Z(2))
    IN  [width |-> width, height |-> height, initialX |-> left, initialY |-> Z(0)]

FitTransform(m) == [scale |-> Z(1), x |-> m.initialX, y |-> m.initialY]

\* an <img> that has not decoded (or no <img> at all)
NoImg == [complete |-> FALSE, naturalWidth |-> 0, naturalHeight |-> 0]

\* `img` of the effect's closure: imageRef.current when the effect ran
CapturedImg(current) ==
    IF fitEffect.img = "current" THEN current ELSE fitEffect.detachedImg

\* faulty variant: the metrics are stored but the transform is left as it is
updateFitKeepTransform(i, cont) ==
    IF \/ fitEffect.img = "none" \/ fitEffect.container = "none"
       \/ ~i.complete \/ i.naturalWidth = 0
    THEN UNCHANGED <<initialImageMetrics, transform>>
    ELSE /\ initialImageMetrics' = FitMetrics(<<i.naturalWidth, i.naturalHeight>>, cont)
         /\ UNCHANGED transform

\* updateFit(): the two setState calls, or nothing on the early return.  `img`
\* and `container` are the elements the effect captured, not the refs' current
\* values.
updateFit(i, cont) ==
    IF \/ fitEffect.img = "none" \/ fitEffect.container = "none"
       \/ ~i.complete \/ i.naturalWidth = 0
    THEN UNCHANGED <<initialImageMetrics, transform>>
    ELSE LET m == FitMetrics(<<i.naturalWidth, i.naturalHeight>>, cont)
         IN  /\ initialImageMetrics' = m
             /\ transform' = FitTransform(m)

\* the fit effect's body: capture the refs, observe the container
FitEffectRun ==
    [img |-> IF CanvasMounted THEN "current" ELSE "none",
     container |-> IF ContainerMounted THEN "current" ELSE "none",
     detachedImg |-> NoImg]

ZoomIntensity == <<1, 1000>>
MinScale == <<1, 2>>
MaxScale == <<10, 1>>

\* faulty variant: the lower clamp is missing
ClampScaleUpperOnly(s) == RMin(MaxScale, s)

ClampScale(s) == RMax(MinScale, RMin(MaxScale, s))

\* faulty variant: the scale changes but the translation is not re-anchored
ZoomedTransformKeepTranslation(t, p, deltaY) ==
    [t EXCEPT !.scale = ClampScale(RSub(t.scale, RMul(Z(deltaY), ZoomIntensity)))]

\* the transform handleWheel stores
ZoomedTransform(t, p, deltaY) ==
    LET mouseX == RSub(Z(p[1]), Z(ContainerLeft))
        mouseY == RSub(Z(p[2]), Z(ContainerTop))
        imageX == RDiv(RSub(mouseX, t.x), t.scale)
        imageY == RDiv(RSub(mouseY, t.y), t.scale)
        newScale == ClampScale(RSub(t.scale, RMul(Z(deltaY), ZoomIntensity)))
    IN  [scale |-> newScale,
         x |-> RSub(mouseX, RMul(imageX, newScale)),
         y |-> RSub(mouseY, RMul(imageY, newScale))]

(***************************************************************************)
(* DOM tree under the pointer: targets, bubbling, class names.             *)
(***************************************************************************)
NoHandle == ""
Target(el, h) == [el |-> el, handle |-> h]

\* the tool wrapper has been laid out with the fitted size.  Gestures on a
\* wrapper that is 0 px wide (metrics never computed) divide by zero in the
\* code; that arithmetic (NaN, Infinity) is outside this model.
ToolLaidOut == img.complete /\ initialImageMetrics.width # Z(0)

\* elements a pointer-down can hit, given what is mounted and laid out
MountedTargets ==
    (IF CanvasMounted /\ img.complete THEN {Target("canvas", NoHandle)} ELSE {})
    \cup (IF TextMounted /\ ToolLaidOut
          THEN {Target("text", NoHandle), Target("textDelete", NoHandle)} ELSE {})
    \cup (IF CropMounted /\ ToolLaidOut
          THEN {Target("cropBox", NoHandle)}
               \cup {Target("cropHandle", h) : h \in Handles}
          ELSE {})
    \cup (IF ComparatorMounted THEN {Target("comparator", NoHandle)} ELSE {})

\* the element and its ancestors up to the element carrying the canvas handlers
Path(el) ==
    CASE el = "canvas"     -> <<"canvas">>
      [] el = "text"       -> <<"text", "canvas">>
      [] el = "textDelete" -> <<"textDelete", "text", "canvas">>
      [] el = "cropBox"    -> <<"cropBox", "canvas">>
      [] el = "cropHandle" -> <<"cropHandle", "cropBox", "canvas">>
      [] el = "comparator" -> <<"comparator">>

\* faulty variant: a crop handle lets its mousedown bubble to the crop box
StopsMouseDownExceptHandles(el) == el \in {"textDelete", "cropBox"}

\* faulty variant: the delete button lets its mousedown bubble to the text
StopsMouseDownCropOnly(el) == el \in {"cropBox", "cropHandle"}

\* elements whose onMouseDown calls e.stopPropagation()
StopsMouseDown(el) == el \in {"textDelete", "cropBox", "cropHandle"}

\* elements whose React handler sees the event (bubbling until stopped)
RECURSIVE ReachedFrom(_, _, _)
ReachedFrom(path, i, src) ==
    IF i > Len(path) THEN {}
    ELSE IF src = "mouse" /\ StopsMouseDown(path[i]) THEN {path[i]}
    ELSE {path[i]} \cup ReachedFrom(path, i + 1, src)

Reached(target, src) == ReachedFrom(Path(target.el), 1, src)

\* className tokens of each element, as written in the JSX
ElementClasses(el) ==
    CASE el = "canvas"     -> {"absolute"}
      [] el = "text"       -> {"absolute", "p-2", "cursor-move", "select-none", "group/text"}
      [] el = "textDelete" -> {"absolute", "-top-2", "-right-2", "bg-red-600"}
      [] el = "cropBox"    -> {"absolute", "border-4", "border-dashed", "cursor-move"}
      [] el = "cropHandle" -> {"absolute", "w-3", "h-3", "bg-white", "rounded-full"}
      [] el = "comparator" -> {"relative", "cursor-ew-resize"}

PanExcludedSelectors == {"draggable-text", "crop-handle", "text-delete-button"}

\* target.closest('.draggable-text, .crop-handle, .text-delete-button')
ClosestPanExcluded(target) ==
    \E i \in 1..Len(Path(target.el)) :
        ElementClasses(Path(target.el)[i]) \cap PanExcludedSelectors # {}

(***************************************************************************)
(* RightPanel: pan.                                                        *)
(***************************************************************************)
\* handleMouseDown starts a pan for this event
PanStarts(target, button) ==
    canZoomPan /\ button = 0 /\ ~ClosestPanExcluded(target)

PanSnapshot(p) ==
    [startX |-> Z(p[1]), startY |-> Z(p[2]),
     initialX |-> transform.x, initialY |-> transform.y]

\* faulty variant: the delta is added to the current translation, not to the snapshot
PannedTransformIncremental(t, ps, p) ==
    [t EXCEPT !.x = RAdd(t.x, RSub(Z(p[1]), ps.startX)),
              !.y = RAdd(t.y, RSub(Z(p[2]), ps.startY))]

\* the window mousemove listener of the pan effect
PannedTransform(t, ps, p) ==
    [t EXCEPT !.x = RAdd(ps.initialX, RSub(Z(p[1]), ps.startX)),
              !.y = RAdd(ps.initialY, RSub(Z(p[2]), ps.startY))]

(***************************************************************************)
(* DraggableText.                                                          *)
(***************************************************************************)
\* dragStartPos written by handleDragStart
TextSnapshot(p) ==
    [x |-> Z(p[1]), y |-> Z(p[2]),
     textX |-> RSub(TextRect.left, ToolRect.left),
     textY |-> RSub(TextRect.top, ToolRect.top)]

Clamp(lo, hi, v) == RMax(lo, RMin(hi, v))

\* faulty variant: the delta is added to the text's current position, not to
\* the snapshot
TextDraggedIncremental(t, ds, rect, p) ==
    LET dx == RSub(Z(p[1]), ds.x)
        dy == RSub(Z(p[2]), ds.y)
        newX == RAdd(RDiv(RMul(t.x, rect.width), Z(100)), dx)
        newY == RAdd(RDiv(RMul(t.y, rect.height), Z(100)), dy)
    IN  [t EXCEPT
           !.x = Clamp(Z(0), Z(100), RMul(RDiv(newX, rect.width), Z(100))),
           !.y = Clamp(Z(0), Z(100), RMul(RDiv(newY, rect.height), Z(100)))]

\* faulty variant: the percentages are stored without clamping
TextDraggedUnclamped(t, ds, rect, p) ==
    LET dx == RSub(Z(p[1]), ds.x)
        dy == RSub(Z(p[2]), ds.y)
        newX == RAdd(ds.textX, dx)
        newY == RAdd(ds.textY, dy)
    IN  [t EXCEPT
           !.x = RMul(RDiv(newX, rect.width), Z(100)),
           !.y = RMul(RDiv(newY, rect.height), Z(100))]

\* handleDragMove: the overlay it stores
TextDragged(t, ds, rect, p) ==
    LET dx == RSub(Z(p[1]), ds.x)
        dy == RSub(Z(p[2]), ds.y)
        newX == RAdd(ds.textX, dx)
        newY == RAdd(ds.textY, dy)
    IN  [t EXCEPT
           !.x = Clamp(Z(0), Z(100), RMul(RDiv(newX, rect.width), Z(100))),
           !.y = Clamp(Z(0), Z(100), RMul(RDiv(newY, rect.height), Z(100)))]

\* handleDelete
TextDeleted(t) == [t EXCEPT !.text = ""]

(***************************************************************************)
(* CropBox.                                                                *)
(***************************************************************************)
\* resizeHandle.includes(edge)
HandleIncludes(h, edge) ==
    CASE edge = "left"   -> h \in {"left", "top-left", "bottom-left"}
      [] edge = "right"  -> h \in {"right", "top-right", "bottom-right"}
      [] edge = "top"    -> h \in {"top", "top-left", "top-right"}
      [] edge = "bottom" -> h \in {"bottom", "bottom-left", "bottom-right"}

\* the handle CropBox.handleMouseDown leaves in resizeHandle: the handlers of
\* the elements the event reaches run innermost first, the box's handler
\* passes null, and the last setResizeHandle of the batch wins
CropHandleStored(target, src) ==
    IF "cropBox" \in Reached(target, src) THEN NoHandle ELSE target.handle

\* dragStart written by handleMouseDown
CropSnapshot(p) ==
    [mouseX |-> Z(p[1]), mouseY |-> Z(p[2]),
     x |-> cropState.x, y |-> cropState.y,
     width |-> cropState.width, height |-> cropState.height]

\* faulty variant: a near-edge resize changes the size but does not shift the position
CropCandidateNoShift(ds, moving, h, rect, p) ==
    LET dx == RMul(RDiv(RSub(Z(p[1]), ds.mouseX), rect.width), Z(100))
        dy == RMul(RDiv(RSub(Z(p[2]), ds.mouseY), rect.height), Z(100))
        resizing == ~moving /\ h # NoHandle
        has(e) == resizing /\ HandleIncludes(h, e)
        w1 == IF has("right") THEN RAdd(ds.width, dx) ELSE ds.width
        w2 == IF has("left") THEN RSub(w1, dx) ELSE w1
        h1 == IF has("bottom") THEN RAdd(ds.height, dy) ELSE ds.height
        h2 == IF has("top") THEN RSub(h1, dy) ELSE h1
    IN  [x |-> IF moving THEN RAdd(ds.x, dx) ELSE ds.x,
         y |-> IF moving THEN RAdd(ds.y, dy) ELSE ds.y,
         width |-> w2, height |-> h2]

\* the rectangle before clamping
CropCandidate(ds, moving, h, rect, p) ==
    LET dx == RMul(RDiv(RSub(Z(p[1]), ds.mouseX), rect.width), Z(100))
        dy == RMul(RDiv(RSub(Z(p[2]), ds.mouseY), rect.height), Z(100))
        resizing == ~moving /\ h # NoHandle
        has(e) == resizing /\ HandleIncludes(h, e)
        w1 == IF has("right") THEN RAdd(ds.width, dx) ELSE ds.width
        w2 == IF has("left") THEN RSub(w1, dx) ELSE w1
        h1 == IF has("bottom") THEN RAdd(ds.height, dy) ELSE ds.height
        h2 == IF has("top") THEN RSub(h1, dy) ELSE h1
    IN  [x |-> IF moving \/ has("left") THEN RAdd(ds.x, dx) ELSE ds.x,
         y |-> IF moving \/ has("top") THEN RAdd(ds.y, dy) ELSE ds.y,
         width |-> w2, height |-> h2]

\* faulty variant: the position is clamped against the size before the size is clamped
CropClampedPositionFirst(c) ==
    [x |-> RMax(Z(0), RMin(RSub(Z(100), c.width), c.x)),
     y |-> RMax(Z(0), RMin(RSub(Z(100), c.height), c.y)),
     width |-> Clamp(Z(5), Z(100), c.width),
     height |-> Clamp(Z(5), Z(100), c.height)]

\* the clamping at the end of handleMouseMove
CropClamped(c) ==
    LET width  == Clamp(Z(5), Z(100), c.width)
        height == Clamp(Z(5), Z(100), c.height)
    IN  [x |-> RMax(Z(0), RMin(RSub(Z(100), width), c.x)),
         y |-> RMax(Z(0), RMin(RSub(Z(100), height), c.y)),
         width |-> width, height |-> height]

\* handleMouseMove: the crop state it stores
CropMoved(ds, moving, h, rect, p) == CropClamped(CropCandidate(ds, moving, h, rect, p))

(***************************************************************************)
(* ImageComparator.                                                        *)
(***************************************************************************)
\* faulty variant: the pointer offset is not clamped to the container
SliderAtUnclamped(rect, clientX) ==
    RMul(RDiv(RSub(Z(clientX), rect.left), rect.width), Z(100))

\* moveSlider: the percentage it stores
SliderAt(rect, clientX) ==
    LET x == RMax(Z(0), RMin(RSub(Z(clientX), rect.left), rect.width))
    IN  RMul(RDiv(x, rect.width), Z(100))

(***************************************************************************)
(* DownloadModal and handleDownloadImage.                                  *)
(***************************************************************************)
Formats == {"png", "jpeg"}
Scales == {1, 2, 4}
\* positions of the quality slider (min 10, max 100, step 5) that are tried
Qualities == {10, 90}
\* naturalWidth x naturalHeight the export's Image() decodes to
ExportNaturals == {<<500, 300>>, <<100, 100>>}
\* how an export ends: download, getContext('2d') null, onerror, a throw while drawing
Outcomes == {"ok", "noctx", "loaderror", "throw"}

NoCanvas == [width |-> 0, height |-> 0, filled |-> FALSE, mime |-> "", quality |-> 0]

\* faulty variant: the canvas keeps the image's natural size whatever the scale
ExportCanvasUnscaled(opts, nat) ==
    [width |-> nat[1],
     height |-> nat[2],
     filled |-> opts.format = "jpeg",
     mime |-> IF opts.format = "jpeg" THEN "image/jpeg" ELSE "image/png",
     quality |-> opts.quality]

\* the canvas image.onload draws and encodes
ExportCanvas(opts, nat) ==
    [width |-> nat[1] * opts.scale,
     height |-> nat[2] * opts.scale,
     filled |-> opts.format = "jpeg",
     mime |-> IF opts.format = "jpeg" THEN "image/jpeg" ELSE "image/png",
     quality |-> opts.quality]

\* faulty variant: the white fill is painted after the image
ExportStepsFillAfterDraw(opts, outcome) ==
    CASE outcome = "loaderror" -> <<"onerror">>
      [] outcome = "noctx" -> <<"onload", "createCanvas", "getContext">>
      [] OTHER ->
           <<"onload", "createCanvas", "getContext", "setSize", "drawImage">>
           \o (IF opts.format = "jpeg" THEN <<"fillWhite">> ELSE <<>>)
           \o (IF outcome = "ok" THEN <<"toDataURL", "click">> ELSE <<>>)

\* the calls of one export, in program order: image.onerror rejects at once;
\* image.onload creates the canvas, asks for the context (and rejects without
\* one), sizes the canvas, fills it for jpeg, draws, encodes and clicks the link
ExportSteps(opts, outcome) ==
    CASE outcome = "loaderror" -> <<"onerror">>
      [] outcome = "noctx" -> <<"onload", "createCanvas", "getContext">>
      [] OTHER ->
           <<"onload", "createCanvas", "getContext", "setSize">>
           \o (IF opts.format = "jpeg" THEN <<"fillWhite">> ELSE <<>>)
           \o <<"drawImage">>
           \o (IF outcome = "ok" THEN <<"toDataURL", "click">> ELSE <<>>)

\* faulty variant: the guards read a value that is never refreshed (stale closure)
ExportStartsStale == props.currentImage

\* a click on the modal's button gets past `if (isDownloading) return` and
\* `if (isProcessingDownload || !currentImage) return`
ExportStarts == ~renderedProcessing /\ props.currentImage

RemoveAt(q, i) == [j \in 1..(Len(q) - 1) |-> IF j < i THEN q[j] ELSE q[j + 1]]

\* err.message of what the awaited promise rejects with
ErrorMessage(outcome) ==
    CASE outcome = "noctx"     -> "Canvas context could not be created."
      [] outcome = "loaderror" -> "Failed to load image for processing: [object Event]"
      [] outcome = "throw"     -> "exception thrown while drawing"
      [] OTHER                 -> ""

\* faulty variant: a load error is swallowed
ReportsExceptLoadError(outcome) == outcome \in {"noctx", "throw"}

\* the catch block runs: the promise was rejected
Reports(outcome) == outcome # "ok"

\* faulty variant: the flag is cleared after the await, not in a finally block
ProcessingAfterSettleNoFinally(outcome) == outcome # "ok"

\* isProcessingDownload as the finally block leaves it
ProcessingAfterSettle(outcome) == FALSE

\* faulty variant: the finally block also closes the modal
ModalOpenAfterSettleClosing(open) == FALSE

\* isDownloadModalOpen as the finally block leaves it (the call that would
\* close the modal is commented out)
ModalOpenAfterSettle(open) == open

\* handleKeyDown calls onClose for this key
ClosesOnKey(key) == key = "Escape"

\* a click on a part of the modal and the ancestors it bubbles through
ModalPath(part) ==
    CASE part = "backdrop"    -> <<"backdrop">>
      [] part = "body"        -> <<"body", "backdrop">>
      [] part = "closeButton" -> <<"closeButton", "body", "backdrop">>

\* faulty variant: the modal body lets clicks bubble to the backdrop
ModalStopsClickNowhere(el) == FALSE

\* elements whose onClick calls e.stopPropagation()
ModalStopsClick(el) == el = "body"

RECURSIVE ModalReachedFrom(_, _)
ModalReachedFrom(path, i) ==
    IF i > Len(path) THEN {}
    ELSE IF ModalStopsClick(path[i]) THEN {path[i]}
    ELSE {path[i]} \cup ModalReachedFrom(path, i + 1)

\* the click reaches an element whose onClick is onClose
ModalClickCloses(part) ==
    ModalReachedFrom(ModalPath(part), 1) \cap {"closeButton", "backdrop"} # {}

(***************************************************************************)
(* Window listeners.  Each component's effect registers its listeners in  *)
(* its body and removes them in its cleanup, which React runs before the   *)
(* effect's next run and when the component unmounts.                      *)
(***************************************************************************)
Owners == {"text", "crop", "pan", "cmp", "modal"}
Listener(owner, types) == {[owner |-> owner, type |-> t] : t \in types}

\* faulty variant: the text drag listens for moves but not for the end events
TextEventsMovesOnly == {"mousemove", "touchmove"}

TextEvents == {"mousemove", "mouseup", "touchmove", "touchend"}
CropEvents == {"mousemove", "mouseup"}
PanEvents == {"mousemove", "mouseup", "mouseleave"}
CmpEvents == {"mousemove", "touchmove", "mouseup", "touchend"}
ModalEvents == {"keydown"}

\* faulty variant: CropBox registers its listeners whenever it is mounted
EffectBodyCropAlways(owner) ==
    CASE owner = "text" ->
           IF TextMounted /\ textIsDragging THEN Listener("text", TextEvents) ELSE {}
      [] owner = "crop" ->
           IF CropMounted THEN Listener("crop", CropEvents) ELSE {}
      [] owner = "pan" ->
           IF panelMounted /\ isPanning THEN Listener("pan", PanEvents) ELSE {}
      [] owner = "cmp" ->
           IF ComparatorMounted THEN Listener("cmp", CmpEvents) ELSE {}
      [] owner = "modal" ->
           IF panelMounted /\ isDownloadModalOpen
           THEN Listener("modal", ModalEvents) ELSE {}

\* what the body of each effect registers for the rendered state
EffectBody(owner) ==
    CASE owner = "text" ->
           IF TextMounted /\ textIsDragging THEN Listener("text", TextEvents) ELSE {}
      [] owner = "crop" ->
           IF CropMounted /\ (cropIsDragging \/ resizeHandle # NoHandle)
           THEN Listener("crop", CropEvents) ELSE {}
      [] owner = "pan" ->
           IF panelMounted /\ isPanning THEN Listener("pan", PanEvents) ELSE {}
      [] owner = "cmp" ->
           IF ComparatorMounted THEN Listener("cmp", CmpEvents) ELSE {}
      [] owner = "modal" ->
           IF panelMounted /\ isDownloadModalOpen
           THEN Listener("modal", ModalEvents) ELSE {}

\* faulty variant: the cleanup functions remove nothing
CleanupNone(L, owners) == L

\* the cleanup functions of the effects of `owners`
Cleanup(L, owners) == {l \in L : l.owner \notin owners}

\* React commit: the effects whose component unmounted or whose dependencies
\* changed run their cleanup, and those still mounted run their body again
Committed(L) ==
    LET rerun == {o \in Owners : EffectBody(o)' # EffectBody(o)}
    IN  Cleanup(L, rerun) \cup UNION {EffectBody(o)' : o \in rerun}

MoveEvent(src) == IF src = "mouse" THEN "mousemove" ELSE "touchmove"
EndEvent(src) == IF src = "mouse" THEN "mouseup" ELSE "touchend"
\* a window listener of `owner` receives events of this type
Hears(owner, type) == [owner |-> owner, type |-> type] \in listeners

(***************************************************************************)
(* Initial state: RightPanel just mounted with a result to show, the       *)
(* <img> not yet decoded.                                                  *)
(***************************************************************************)
Props(mode, fn, cmp) ==
    [mode |-> mode, editFunction |-> fn, isMaskingActive |-> FALSE,
     showComparator |-> cmp, comparisonImage |-> cmp,
     generatedVideoUrl |-> FALSE, currentImage |-> TRUE, isLoading |-> FALSE]

Scenarios ==
    {Props("create", "add-remove", FALSE),
     Props("edit", "text-overlay", FALSE),
     Props("edit", "crop", FALSE),
     Props("edit", "style", TRUE)}

Text(x, y) ==
    [text |-> "T", color |-> "#FFFFFF", size |-> 5, font |-> "Arial",
     x |-> Z(x), y |-> Z(y)]

Crop(x, y, w, h) == [x |-> Z(x), y |-> Z(y), width |-> Z(w), height |-> Z(h)]

\* crop rectangles the owner of cropState hands in
InitialCrops == {Crop(10, 10, 80, 80), Crop(20, 40, 30, 20)}
InitialTexts == {Text(50, 50)}

ValidCrop(c) ==
    /\ RLe(Z(5), c.width) /\ RLe(c.width, Z(100))
    /\ RLe(Z(5), c.height) /\ RLe(c.height, Z(100))
    /\ RLe(Z(0), c.x) /\ RLe(Z(0), c.y)
    /\ RLe(RAdd(c.x, c.width), Z(100))
    /\ RLe(RAdd(c.y, c.height), Z(100))

Init ==
    /\ props \in Scenarios
    /\ container \in ContainerSizes
    /\ img = NoImg
    /\ transform = [scale |-> Z(1), x |-> Z(0), y |-> Z(0)]
    /\ initialImageMetrics =
           [width |-> Z(0), height |-> Z(0), initialX |-> Z(0), initialY |-> Z(0)]
    /\ isPanning = FALSE
    /\ panStart = [startX |-> Z(0), startY |-> Z(0), initialX |-> Z(0), initialY |-> Z(0)]
    /\ textOverlay \in InitialTexts
    /\ textIsDragging = FALSE
    /\ dragStartPos = [x |-> Z(0), y |-> Z(0), textX |-> Z(0), textY |-> Z(0)]
    /\ cropState \in {c \in InitialCrops : props.editFunction = "crop" \/ c = Crop(10, 10, 80, 80)}
    /\ cropIsDragging = FALSE
    /\ resizeHandle = NoHandle
    /\ dragStart = [mouseX |-> Z(0), mouseY |-> Z(0),
                    x |-> cropState.x, y |-> cropState.y,
                    width |-> cropState.width, height |-> cropState.height]
    /\ sliderPosition = Z(50)
    /\ cmpIsDragging = FALSE
    /\ pointer = <<0, 0>>
    /\ ev = "none"
    /\ preGesture = [p |-> <<0, 0>>, text |-> textOverlay, crop |-> cropState,
                      src |-> "none", el |-> "none", handle |-> NoHandle,
                      button |-> 0]
    /\ gestures = 0
    /\ wheels = 0
    /\ isDownloadModalOpen = FALSE
    /\ isProcessingDownload = FALSE
    /\ renderedProcessing = FALSE
    /\ modalOptions = [format |-> "png", scale |-> 1, quality |-> 90]
    /\ pending = <<>>
    /\ lastCanvas = NoCanvas
    /\ downloads = 0
    /\ alerts = 0
    /\ exports = 0
    /\ lastAlert = ""
    /\ lastExport = [scale |-> 0, nat |-> <<0, 0>>, steps |-> <<>>]
    /\ panelMounted = TRUE
    /\ fitEffect = FitEffectRun
    /\ listeners = UNION {EffectBody(o) : o \in Owners}

(***************************************************************************)
(* Actions: one per event delivered to the page.                           *)
(***************************************************************************)
\* img.onload of the mounted <img>; the handler is updateFit when the fit
\* effect ran with this element
ImageLoad(nat) ==
    /\ CanvasMounted
    /\ ~img.complete
    /\ img' = [complete |-> TRUE, naturalWidth |-> nat[1], naturalHeight |-> nat[2]]
    /\ IF fitEffect.img = "current"
       THEN updateFit(img', container)
       ELSE UNCHANGED <<initialImageMetrics, transform>>
    /\ ev' = "load"
    /\ UNCHANGED <<exportVars, lifeVars, props, container, isPanning, panStart, textVars,
                   cropVars, cmpVars, pointer, preGesture, gestures, wheels>>
    /\ UNCHANGED listeners

\* the layout gives #imageContainer a new size; the ResizeObserver calls
\* updateFit when this is the element it observes
ContainerResize(size) ==
    /\ panelMounted
    /\ size # container
    /\ container' = size
    /\ IF fitEffect.container = "current"
       THEN updateFit(CapturedImg(img), size)
       ELSE UNCHANGED <<initialImageMetrics, transform>>
    /\ ev' = "resize"
    /\ UNCHANGED <<exportVars, lifeVars, props, img, isPanning, panStart, textVars, cropVars,
                   cmpVars, pointer, preGesture, gestures, wheels>>
    /\ UNCHANGED listeners

\* the ResizeObserver reports the observed element's removal from the
\* document as a resize to 0 x 0
DetachedResize ==
    /\ fitEffect.container = "detached"
    /\ fitEffect' = [fitEffect EXCEPT !.container = "reported"]
    /\ updateFit(CapturedImg(img), <<0, 0>>)
    /\ ev' = "detached"
    /\ UNCHANGED <<exportVars, panelMounted, props, container, img, isPanning, panStart,
                   textVars, cropVars, cmpVars, pointer, preGesture, gestures, wheels>>
    /\ UNCHANGED listeners

\* click on the "Fit to Screen" button (rendered while isTransformed)
ResetTransform ==
    /\ ResetButtonShown
    /\ transform' = [scale |-> Z(1), x |-> initialImageMetrics.initialX,
                     y |-> initialImageMetrics.initialY]
    /\ ev' = "reset"
    /\ UNCHANGED <<exportVars, lifeVars, props, container, img, initialImageMetrics,
                   isPanning, panStart, textVars, cropVars, cmpVars, pointer, preGesture,
                   gestures, wheels>>
    /\ UNCHANGED listeners

\* handleWheel
Wheel(p, deltaY) ==
    /\ wheels < MaxWheels
    /\ Target("canvas", NoHandle) \in MountedTargets
    /\ canZoomPan
    /\ wheels' = wheels + 1
    /\ pointer' = p
    /\ transform' = ZoomedTransform(transform, p, deltaY)
    /\ ev' = "wheel"
    /\ UNCHANGED <<exportVars, lifeVars, props, container, img, initialImageMetrics,
                   isPanning, panStart, textVars, cropVars, cmpVars, preGesture, gestures>>
    /\ UNCHANGED listeners

\* mousedown / touchstart on `target`, delivered along the bubbling path
PointerDown(src, target, button, p) ==
    LET reached == Reached(target, src)
        text == "text" \in reached
        crop == src = "mouse" /\ reached \cap {"cropBox", "cropHandle"} # {}
        pan  == src = "mouse" /\ "canvas" \in reached /\ PanStarts(target, button)
        cmp  == "comparator" \in reached
    IN  /\ gestures < MaxGestures
        /\ target \in MountedTargets
        /\ src = "touch" => button = 0
        /\ gestures' = gestures + 1
        /\ pointer' = p
        /\ preGesture' = [p |-> p, text |-> textOverlay, crop |-> cropState,
                          src |-> src, el |-> target.el, handle |-> target.handle,
                          button |-> button]
        /\ IF text
           THEN textIsDragging' = TRUE /\ dragStartPos' = TextSnapshot(p)
           ELSE UNCHANGED <<textIsDragging, dragStartPos>>
        /\ IF crop
           THEN /\ resizeHandle' = CropHandleStored(target, src)
                /\ cropIsDragging' = (CropHandleStored(target, src) = NoHandle)
                /\ dragStart' = CropSnapshot(p)
           ELSE UNCHANGED <<resizeHandle, cropIsDragging, dragStart>>
        /\ IF pan
           THEN isPanning' = TRUE /\ panStart' = PanSnapshot(p)
           ELSE UNCHANGED <<isPanning, panStart>>
        /\ IF cmp
           THEN cmpIsDragging' = TRUE /\ sliderPosition' = SliderAt(CmpRect, p[1])
           ELSE UNCHANGED <<cmpIsDragging, sliderPosition>>
        /\ ev' = "down"
        /\ UNCHANGED <<exportVars, lifeVars, props, container, img, transform,
                       initialImageMetrics, textOverlay, cropState, wheels>>
        /\ listeners' = Committed(listeners)

\* mousemove / touchmove on window, delivered to the registered listeners
PointerMove(src, p) ==
    LET text == Hears("text", MoveEvent(src)) /\ textIsDragging
        crop == Hears("crop", MoveEvent(src))
        pan  == Hears("pan", MoveEvent(src)) /\ isPanning
        cmp  == Hears("cmp", MoveEvent(src)) /\ cmpIsDragging
    IN  /\ pointer' = p
        /\ textOverlay' = IF text THEN TextDragged(textOverlay, dragStartPos, ToolRect, p)
                          ELSE textOverlay
        /\ cropState' = IF crop
                        THEN CropMoved(dragStart, cropIsDragging, resizeHandle, ToolRect, p)
                        ELSE cropState
        /\ transform' = IF pan THEN PannedTransform(transform, panStart, p) ELSE transform
        /\ sliderPosition' = IF cmp THEN SliderAt(CmpRect, p[1]) ELSE sliderPosition
        /\ ev' = "move"
        /\ UNCHANGED <<exportVars, lifeVars, props, container, img, initialImageMetrics,
                       isPanning, panStart, textIsDragging, dragStartPos, cropIsDragging,
                       resizeHandle, dragStart, cmpIsDragging, preGesture, gestures, wheels>>
        /\ UNCHANGED listeners

\* mouseup / touchend on window, delivered to the registered listeners
PointerUp(src) ==
    LET text == Hears("text", EndEvent(src))
        crop == Hears("crop", EndEvent(src))
        pan  == Hears("pan", EndEvent(src))
        cmp  == Hears("cmp", EndEvent(src))
    IN  /\ textIsDragging' = IF text THEN FALSE ELSE textIsDragging
        /\ cropIsDragging' = IF crop THEN FALSE ELSE cropIsDragging
        /\ resizeHandle' = IF crop THEN NoHandle ELSE resizeHandle
        /\ isPanning' = IF pan THEN FALSE ELSE isPanning
        /\ cmpIsDragging' = IF cmp THEN FALSE ELSE cmpIsDragging
        /\ preGesture' = [preGesture EXCEPT !.src = "none", !.el = "none",
                                           !.handle = NoHandle, !.button = 0]
        /\ ev' = "up"
        /\ UNCHANGED <<exportVars, lifeVars, props, container, img, transform,
                       initialImageMetrics, panStart, textOverlay, dragStartPos, cropState,
                       dragStart, sliderPosition, pointer, gestures, wheels>>
        /\ listeners' = Committed(listeners)

\* click on the text's delete button: handleDelete, then DraggableText unmounts
TextDeleteClick ==
    /\ Target("textDelete", NoHandle) \in MountedTargets
    /\ textOverlay' = TextDeleted(textOverlay)
    /\ textIsDragging' = FALSE
    /\ dragStartPos' = [x |-> Z(0), y |-> Z(0), textX |-> Z(0), textY |-> Z(0)]
    /\ ev' = "click"
    /\ UNCHANGED <<exportVars, lifeVars, props, canvasVars, cropVars, cmpVars, pointer,
                   preGesture, gestures, wheels>>
    /\ listeners' = Committed(listeners)

\* click on the canvas' download button
OpenDownloadModal ==
    /\ CanvasMounted
    /\ isDownloadModalOpen' = TRUE
    /\ ev' = "open"
    /\ UNCHANGED <<lifeVars, props, canvasVars, textVars, cropVars, cmpVars, pointer,
                   preGesture, gestures, wheels, isProcessingDownload, renderedProcessing,
                   modalOptions, pending, lastCanvas, downloads, alerts, exports, lastAlert,
                   lastExport>>
    /\ listeners' = Committed(listeners)

\* onClose: Escape, a click on the backdrop, or the modal's close button
CloseDownloadModal ==
    /\ isDownloadModalOpen
    /\ isDownloadModalOpen' = FALSE
    /\ ev' = "close"
    /\ UNCHANGED <<lifeVars, props, canvasVars, textVars, cropVars, cmpVars, pointer,
                   preGesture, gestures, wheels, isProcessingDownload, renderedProcessing,
                   modalOptions, pending, lastCanvas, downloads, alerts, exports, lastAlert,
                   lastExport>>
    /\ listeners' = Committed(listeners)

\* keydown on window: the modal's listener, when it is registered
KeyDown(key) ==
    /\ isDownloadModalOpen' =
          IF Hears("modal", "keydown") /\ ClosesOnKey(key) THEN FALSE
          ELSE isDownloadModalOpen
    /\ ev' = IF key = "Escape" THEN "escape" ELSE "key"
    /\ UNCHANGED <<lifeVars, props, canvasVars, textVars, cropVars, cmpVars, pointer,
                   preGesture, gestures, wheels, isProcessingDownload, renderedProcessing,
                   modalOptions, pending, lastCanvas, downloads, alerts, exports, lastAlert,
                   lastExport>>
    /\ listeners' = Committed(listeners)

\* click on the modal's backdrop, on its body, or on its close button
ModalClick(part) ==
    /\ panelMounted
    /\ isDownloadModalOpen
    /\ isDownloadModalOpen' = ~ModalClickCloses(part)
    /\ ev' = part
    /\ UNCHANGED <<lifeVars, props, canvasVars, textVars, cropVars, cmpVars, pointer,
                   preGesture, gestures, wheels, isProcessingDownload, renderedProcessing,
                   modalOptions, pending, lastCanvas, downloads, alerts, exports, lastAlert,
                   lastExport>>
    /\ listeners' = Committed(listeners)

\* the format / resolution buttons and the quality slider (shown for jpeg)
SetOptions(f, sc, q) ==
    /\ isDownloadModalOpen
    /\ q # modalOptions.quality => modalOptions.format = "jpeg" /\ f = "jpeg"
    /\ Cardinality({k \in {"format", "scale", "quality"} :
                      [format |-> f, scale |-> sc, quality |-> q][k] # modalOptions[k]}) = 1
    /\ modalOptions' = [format |-> f, scale |-> sc, quality |-> q]
    /\ ev' = "options"
    /\ UNCHANGED <<lifeVars, props, canvasVars, textVars, cropVars, cmpVars, pointer,
                   preGesture, gestures, wheels, isDownloadModalOpen, isProcessingDownload,
                   renderedProcessing, pending, lastCanvas, downloads, alerts, exports,
                   lastAlert, lastExport>>
    /\ UNCHANGED listeners

\* handleDownloadClick -> handleDownloadImage up to the await; React re-renders
\* before the next event is delivered
DownloadClick ==
    /\ isDownloadModalOpen
    /\ ExportStarts => exports < MaxExports
    /\ IF ExportStarts
       THEN /\ isProcessingDownload' = TRUE
            /\ renderedProcessing' = TRUE
            /\ pending' = Append(pending, modalOptions)
            /\ exports' = exports + 1
            /\ ev' = "exportStart"
       ELSE /\ ev' = "exportIgnored"
            /\ UNCHANGED <<isProcessingDownload, renderedProcessing, pending, exports>>
    /\ UNCHANGED <<lifeVars, props, canvasVars, textVars, cropVars, cmpVars, pointer,
                   preGesture, gestures, wheels, isDownloadModalOpen, modalOptions,
                   lastCanvas, downloads, alerts, lastAlert, lastExport>>
    /\ UNCHANGED listeners

\* image.onload / image.onerror of the i-th pending export, then catch and finally
ExportSettle(i, outcome, nat) ==
    /\ i \in 1..Len(pending)
    /\ pending' = RemoveAt(pending, i)
    /\ lastCanvas' = IF outcome \in {"ok", "throw"} THEN ExportCanvas(pending[i], nat)
                     ELSE lastCanvas
    /\ downloads' = IF outcome = "ok" THEN downloads + 1 ELSE downloads
    /\ alerts' = IF Reports(outcome) THEN alerts + 1 ELSE alerts
    /\ lastAlert' = IF Reports(outcome) THEN ErrorMessage(outcome) ELSE lastAlert
    /\ lastExport' = [scale |-> IF outcome \in {"ok", "throw"} THEN pending[i].scale ELSE 0,
                       nat |-> IF outcome \in {"ok", "throw"} THEN nat ELSE <<0, 0>>,
                       steps |-> ExportSteps(pending[i], outcome)]
    /\ isProcessingDownload' = ProcessingAfterSettle(outcome)
    /\ ev' = outcome
    /\ isDownloadModalOpen' = ModalOpenAfterSettle(isDownloadModalOpen)
    /\ UNCHANGED <<lifeVars, props, canvasVars, textVars, cropVars, cmpVars, pointer,
                   preGesture, gestures, wheels, renderedProcessing, modalOptions, exports>>
    /\ UNCHANGED listeners

\* the re-render scheduled by setIsProcessingDownload(false)
Render ==
    /\ renderedProcessing # isProcessingDownload
    /\ renderedProcessing' = isProcessingDownload
    /\ ev' = "render"
    /\ UNCHANGED <<lifeVars, props, canvasVars, textVars, cropVars, cmpVars, pointer,
                   preGesture, gestures, wheels, isDownloadModalOpen, isProcessingDownload,
                   modalOptions, pending, lastCanvas, downloads, alerts, exports, lastAlert,
                   lastExport>>
    /\ UNCHANGED listeners

(***************************************************************************)
(* The parent re-renders RightPanel with other props, or removes it.       *)
(***************************************************************************)
\* the DOM and component state after a render with `newProps`: a component
\* that leaves the tree loses its state and one that enters starts afresh; an
\* <img> that is new or has a new src has not decoded yet
Rerendered(newProps, mounted, newSrc) ==
    /\ props' = newProps
    /\ panelMounted' = mounted
    /\ UNCHANGED <<textOverlay, cropState>>
    /\ img' = IF CanvasMounted /\ CanvasMounted' /\ ~newSrc THEN img ELSE NoImg
    /\ IF TextMounted /\ TextMounted'
       THEN UNCHANGED <<textIsDragging, dragStartPos>>
       ELSE /\ textIsDragging' = FALSE
            /\ dragStartPos' = [x |-> Z(0), y |-> Z(0), textX |-> Z(0), textY |-> Z(0)]
    /\ IF CropMounted /\ CropMounted'
       THEN UNCHANGED <<cropIsDragging, resizeHandle, dragStart>>
       ELSE /\ cropIsDragging' = FALSE
            /\ resizeHandle' = NoHandle
            /\ dragStart' = [mouseX |-> Z(0), mouseY |-> Z(0),
                             x |-> cropState.x, y |-> cropState.y,
                             width |-> cropState.width, height |-> cropState.height]
    /\ IF ComparatorMounted /\ ComparatorMounted'
       THEN UNCHANGED <<sliderPosition, cmpIsDragging>>
       ELSE sliderPosition' = Z(50) /\ cmpIsDragging' = FALSE

\* the fit effect does not run again: its closure holds on to removed elements
FitEffectKept ==
    [img |-> IF fitEffect.img = "current" /\ ~CanvasMounted'
             THEN "detached" ELSE fitEffect.img,
     container |-> IF fitEffect.container = "current" /\ ~ContainerMounted'
                   THEN "detached" ELSE fitEffect.container,
     detachedImg |-> IF fitEffect.img = "current" /\ ~CanvasMounted'
                     THEN img ELSE fitEffect.detachedImg]

\* a render with new props and the same currentImage
PropsChange(newProps) ==
    /\ panelMounted
    /\ newProps # props
    /\ Rerendered(newProps, TRUE, FALSE)
    /\ fitEffect' = FitEffectKept
    /\ ev' = "props"
    /\ UNCHANGED <<exportVars, container, transform, initialImageMetrics, isPanning,
                   panStart, pointer, preGesture, gestures, wheels>>
    /\ listeners' = Committed(listeners)

\* the "compare" switch of the parent
ToggleComparator == PropsChange([props EXCEPT !.showComparator = ~@])

\* a generation starts or ends without replacing the current image
SetLoading(b) == PropsChange([props EXCEPT !.isLoading = b])

\* the parent's edit-function selector
SelectTool(fn) == PropsChange([props EXCEPT !.mode = "edit", !.editFunction = fn])

\* generatedImages[selectedIndex] becomes another image: the <img> gets a new
\* src and the fit effect runs again (cleanup, then body)
ChangeImage ==
    /\ panelMounted
    /\ props.currentImage
    /\ Rerendered(props, TRUE, TRUE)
    /\ fitEffect' = FitEffectRun'
    /\ ev' = "image"
    /\ UNCHANGED <<exportVars, container, transform, initialImageMetrics, isPanning,
                   panStart, pointer, preGesture, gestures, wheels>>
    /\ listeners' = Committed(listeners)

\* a render with any new props: when currentImage appears, goes away or is
\* replaced the fit effect runs again (cleanup, then body), otherwise it is kept
ParentRender(newProps) ==
    /\ panelMounted
    /\ newProps # props
    /\ Rerendered(newProps, TRUE, newProps.currentImage # props.currentImage)
    /\ fitEffect' = IF newProps.currentImage # props.currentImage
                    THEN FitEffectRun' ELSE FitEffectKept
    /\ ev' = "props"
    /\ UNCHANGED <<exportVars, container, transform, initialImageMetrics, isPanning,
                   panStart, pointer, preGesture, gestures, wheels>>
    /\ listeners' = Committed(listeners)

\* RightPanel leaves the tree: every effect's cleanup runs (the observer is
\* disconnected), all state is dropped
Unmount ==
    /\ panelMounted
    /\ Rerendered(props, FALSE, FALSE)
    /\ fitEffect' = FitEffectRun'
    /\ isPanning' = FALSE
    /\ isDownloadModalOpen' = FALSE
    /\ ev' = "unmount"
    /\ UNCHANGED <<container, transform, initialImageMetrics, panStart, pointer, preGesture,
                   gestures, wheels, isProcessingDownload, renderedProcessing, modalOptions,
                   pending, lastCanvas, downloads, alerts, exports, lastAlert,
                   lastExport>>
    /\ listeners' = Committed(listeners)

(***************************************************************************)
(* Specifications.  Each one mounts RightPanel with one tool selected and  *)
(* delivers the events that tool's elements can receive.                   *)
(***************************************************************************)
PlainProps == Props("create", "add-remove", FALSE)
TextProps == Props("edit", "text-overlay", FALSE)
CropProps == Props("edit", "crop", FALSE)
CompareProps == Props("edit", "style", TRUE)

\* clientX / clientY of pointer events
PtsAll == {<<10, 0>>, <<60, 50>>}

\* the zoom/pan canvas with no overlay tool
PtsCanvas == {<<10, 0>>, <<60, 50>>}
InitCanvas == Init /\ props = PlainProps
NextCanvas ==
    \/ ImageLoad(<<100, 100>>)
    \/ \E size \in ContainerSizes : ContainerResize(size)
    \/ ResetTransform
    \/ \E p \in PtsCanvas, d \in WheelDeltas : Wheel(p, d)
    \/ \E b \in Buttons, p \in PtsCanvas :
          PointerDown("mouse", Target("canvas", NoHandle), b, p)
    \/ \E p \in PtsCanvas : PointerMove("mouse", p)
    \/ PointerUp("mouse")

SpecCanvas == InitCanvas /\ [][NextCanvas]_vars

\* the crop tool
PtsCrop == {<<10, 0>>, <<10, 50>>, <<40, 50>>, <<110, 0>>}
InitCrop == Init /\ props = CropProps
NextCrop ==
    \/ \E nat \in NaturalSizes : ImageLoad(nat)
    \/ \E p \in PtsCrop : PointerDown("mouse", Target("cropBox", NoHandle), 0, p)
    \/ \E h \in Handles, p \in PtsCrop :
          PointerDown("mouse", Target("cropHandle", h), 0, p)
    \/ \E p \in PtsCrop : PointerMove("mouse", p)
    \/ PointerUp("mouse")

SpecCrop == InitCrop /\ [][NextCrop]_vars

\* the comparison slider
PtsCompare == {<<0, 0>>, <<10, 0>>, <<60, 50>>, <<110, 50>>, <<210, 0>>, <<250, 50>>}
InitCompare == Init /\ props = CompareProps
NextCompare ==
    \/ \E size \in ContainerSizes : ContainerResize(size)
    \/ \E src \in Sources, b \in Buttons, p \in PtsCompare :
          PointerDown(src, Target("comparator", NoHandle), b, p)
    \/ \E src \in Sources, p \in PtsCompare : PointerMove(src, p)
    \/ \E src \in Sources : PointerUp(src)

SpecCompare == InitCompare /\ [][NextCompare]_vars

\* the text overlay on the zoom/pan canvas
InitText == Init /\ props = TextProps
NextText ==
    \/ \E nat \in NaturalSizes : ImageLoad(nat)
    \/ \E src \in Sources, el \in {"canvas", "text", "textDelete"}, b \in Buttons,
          p \in PtsAll : PointerDown(src, Target(el, NoHandle), b, p)
    \/ \E src \in Sources, p \in PtsAll : PointerMove(src, p)
    \/ \E src \in Sources : PointerUp(src)
    \/ TextDeleteClick

SpecText == InitText /\ [][NextText]_vars

\* the export modal
InitExport == Init /\ props = PlainProps /\ container = <<100, 100>>
NextExport ==
    \/ OpenDownloadModal
    \/ CloseDownloadModal
    \/ \E f \in Formats, sc \in Scales, q \in Qualities : SetOptions(f, sc, q)
    \/ DownloadClick
    \/ \E i \in 1..2, o \in Outcomes, nat \in ExportNaturals : ExportSettle(i, o, nat)
    \/ Render

SpecExport == InitExport /\ [][NextExport]_vars

\* the export with the modal's default options, when the image the export
\* decodes always reports load or error and React always performs the
\* re-render a state update scheduled
SettleSome == \E i \in 1..2, o \in Outcomes, nat \in ExportNaturals : ExportSettle(i, o, nat)
NextExportLive ==
    \/ OpenDownloadModal
    \/ CloseDownloadModal
    \/ DownloadClick
    \/ SettleSome
    \/ Render

SpecExportLive ==
    InitExport /\ [][NextExportLive]_vars /\ WF_vars(SettleSome) /\ WF_vars(Render)

\* the export modal opened over a zoomed canvas, cancelled by key or click,
\* and exports with a few of the options
Keys == {"Escape", "Enter"}
ModalParts == {"backdrop", "body", "closeButton"}
InitModal == Init /\ props = PlainProps /\ container = <<100, 100>>
NextModal ==
    \/ ImageLoad(<<100, 100>>)
    \/ Wheel(<<60, 50>>, -500)
    \/ OpenDownloadModal
    \/ \E key \in Keys : KeyDown(key)
    \/ \E part \in ModalParts : ModalClick(part)
    \/ \E f \in Formats, sc \in {1, 2} : SetOptions(f, sc, 90)
    \/ DownloadClick
    \/ \E o \in Outcomes : ExportSettle(1, o, <<100, 100>>)
    \/ Render

SpecModal == InitModal /\ [][NextModal]_vars

\* the fit of images of many shapes into containers of many shapes
FitContainers ==
    {<<800, 600>>, <<100, 100>>, <<200, 100>>, <<100, 200>>, <<300, 200>>,
     <<640, 480>>, <<1, 1>>, <<1000, 10>>}
FitNaturals ==
    {<<1600, 800>>, <<100, 100>>, <<200, 100>>, <<100, 200>>, <<4, 3>>, <<3, 4>>,
     <<1, 1000>>, <<1920, 1080>>}
InitFit == Init /\ props = PlainProps /\ container = <<100, 100>>
NextFit ==
    \/ \E nat \in FitNaturals : ImageLoad(nat)
    \/ \E size \in FitContainers : ContainerResize(size)

SpecFit == InitFit /\ [][NextFit]_vars

\* the canvas leaves and re-enters the tree (comparison switch, loading) and
\* the current image is replaced, with resizes and zooms in between
InitRemount == Init /\ props = CompareProps
NextRemount ==
    \/ ImageLoad(<<100, 100>>)
    \/ \E size \in ContainerSizes : ContainerResize(size)
    \/ DetachedResize
    \/ ResetTransform
    \/ \E d \in {-500, 1000} : Wheel(<<60, 50>>, d)
    \/ ToggleComparator
    \/ \E b \in BOOLEAN : SetLoading(b)
    \/ ChangeImage

SpecRemount == InitRemount /\ [][NextRemount]_vars

\* zoom and pan on a canvas that the comparison switch hides and shows
InitZoomToggle == Init /\ props = CompareProps /\ container = <<200, 100>>
NextZoomToggle ==
    \/ ImageLoad(<<100, 100>>)
    \/ ResetTransform
    \/ \E d \in {-500, 1000} : Wheel(<<60, 50>>, d)
    \/ PointerDown("mouse", Target("canvas", NoHandle), 0, <<10, 0>>)
    \/ \E p \in PtsCanvas : PointerMove("mouse", p)
    \/ PointerUp("mouse")
    \/ ToggleComparator
    \/ ChangeImage

SpecZoomToggle == InitZoomToggle /\ [][NextZoomToggle]_vars

\* gestures on every tool while the parent switches tools (which also hides
\* the comparator) or removes the panel
InitUnmount == Init /\ container = <<100, 100>>
NextUnmount ==
    \/ ImageLoad(<<100, 100>>)
    \/ \E src \in Sources, el \in {"canvas", "text", "cropBox", "comparator"} :
          PointerDown(src, Target(el, NoHandle), 0, <<10, 0>>)
    \/ PointerDown("mouse", Target("cropHandle", "left"), 0, <<10, 0>>)
    \/ \E src \in Sources, p \in PtsAll : PointerMove(src, p)
    \/ \E src \in Sources : PointerUp(src)
    \/ TextDeleteClick
    \/ OpenDownloadModal
    \/ CloseDownloadModal
    \/ \E fn \in {"text-overlay", "crop", "style"} : SelectTool(fn)
    \/ Unmount

SpecUnmount == InitUnmount /\ [][NextUnmount]_vars

\* one gesture on any tool, when a pointer that went down is released
\* sooner or later
InitGestureLive == Init /\ container = <<100, 100>>
NextGestureLive ==
    \/ ImageLoad(<<100, 100>>)
    \/ \E src \in Sources, el \in {"canvas", "text", "cropBox", "comparator"} :
          PointerDown(src, Target(el, NoHandle), 0, <<10, 0>>)
    \/ PointerDown("mouse", Target("cropHandle", "top-left"), 0, <<10, 0>>)
    \/ \E src \in Sources, p \in PtsAll : PointerMove(src, p)
    \/ \E src \in Sources : PointerUp(src)

SpecGestureLive ==
    /\ InitGestureLive /\ [][NextGestureLive]_vars
    /\ WF_vars(PointerUp("mouse")) /\ WF_vars(PointerUp("touch"))

\* drags of the text and of the crop box over several pointer positions
PtsDrag == {<<10, 0>>, <<40, 50>>, <<110, 0>>}
InitDrag == Init /\ props \in {TextProps, CropProps} /\ container = <<100, 100>>
NextDrag ==
    \/ \E nat \in NaturalSizes : ImageLoad(nat)
    \/ \E src \in Sources, p \in PtsDrag : PointerDown(src, Target("text", NoHandle), 0, p)
    \/ \E p \in PtsDrag : PointerDown("mouse", Target("cropBox", NoHandle), 0, p)
    \/ \E h \in {"top-left", "right"}, p \in PtsDrag :
          PointerDown("mouse", Target("cropHandle", h), 0, p)
    \/ \E src \in Sources, p \in PtsDrag : PointerMove(src, p)
    \/ \E src \in Sources : PointerUp(src)

SpecDrag == InitDrag /\ [][NextDrag]_vars

\* the values of the AppMode and EditFunction enums
Modes == {"create", "edit", "render", "video"}
EditFunctions == {"add-remove", "retouch", "style", "compose", "text-overlay", "crop"}

\* every combination of the props that select what is mounted, reached by
\* renders that change one prop at a time, with the text deleted or not
InitMount == Init /\ props = TextProps /\ container = <<100, 100>>
NextMount ==
    \/ ImageLoad(<<100, 100>>)
    \/ TextDeleteClick
    \/ \E m \in Modes : ParentRender([props EXCEPT !.mode = m])
    \/ \E fn \in EditFunctions : ParentRender([props EXCEPT !.editFunction = fn])
    \/ \E f \in {"isMaskingActive", "showComparator", "comparisonImage",
                  "generatedVideoUrl", "currentImage", "isLoading"} :
          ParentRender([props EXCEPT ![f] = ~@])

SpecMount == InitMount /\ [][NextMount]_vars

\* every tool, every pointer target
Next ==
    \/ ImageLoad(<<100, 100>>)
    \/ \E size \in ContainerSizes : ContainerResize(size)
    \/ ResetTransform
    \/ \E p \in PtsCanvas, d \in WheelDeltas : Wheel(p, d)
    \/ \E src \in Sources, el \in {"canvas", "text", "textDelete", "cropBox", "comparator"},
          b \in Buttons, p \in PtsAll : PointerDown(src, Target(el, NoHandle), b, p)
    \/ \E h \in Handles, b \in Buttons, p \in PtsAll :
          PointerDown("mouse", Target("cropHandle", h), b, p)
    \/ \E src \in Sources, p \in PtsAll : PointerMove(src, p)
    \/ \E src \in Sources : PointerUp(src)
    \/ TextDeleteClick

Spec == Init /\ [][Next]_vars

(***************************************************************************)
(* Properties.                                                             *)
(***************************************************************************)
CropGestureActive == cropIsDragging \/ resizeHandle # NoHandle
Resizing == ~cropIsDragging /\ resizeHandle # NoHandle
\* the rectangle the last crop move computed before clamping
LastCandidate == CropCandidate(dragStart, cropIsDragging, resizeHandle, ToolRect, pointer)
\* pointer delta of the last crop move, in percent of the tool container
DxPercent == RMul(RDiv(RSub(Z(pointer[1]), dragStart.mouseX), ToolRect.width), Z(100))
DyPercent == RMul(RDiv(RSub(Z(pointer[2]), dragStart.mouseY), ToolRect.height), Z(100))

MutualExclusion ==
    Cardinality({c \in {"pan", "text", "crop", "cmp"} :
                    \/ c = "pan" /\ isPanning
                    \/ c = "text" /\ textIsDragging
                    \/ c = "crop" /\ CropGestureActive
                    \/ c = "cmp" /\ cmpIsDragging}) <= 1

\* C3: while an export is in flight no second one starts: at most one export
\* is pending, the in-progress flag is set while it is, and every export that
\* has ended raised exactly one download or one error.
SingleFlightExport ==
    /\ Len(pending) <= 1
    /\ Len(pending) = 1 => isProcessingDownload /\ renderedProcessing
    /\ downloads + alerts + Len(pending) = exports

\* the download button was invoked while an export was awaiting its image
SecondInvocationInFlight == ev = "exportIgnored" /\ Len(pending) = 1

\* C4: in a resize whose candidate rectangle needs no clamping, a 'left'
\* handle moves x and width by the pointer delta and keeps x + width, 'top'
\* does the same for y and height, 'right' changes only width, 'bottom' only
\* height, and an axis the handle does not name is untouched.
AnchorEdgeUnclamped ==
    (ev = "move" /\ Resizing /\ ValidCrop(LastCandidate)) =>
        /\ HandleIncludes(resizeHandle, "left") =>
              /\ cropState.x = RAdd(dragStart.x, DxPercent)
              /\ cropState.width = RSub(dragStart.width, DxPercent)
              /\ RAdd(cropState.x, cropState.width) = RAdd(dragStart.x, dragStart.width)
        /\ HandleIncludes(resizeHandle, "right") =>
              /\ cropState.x = dragStart.x
              /\ cropState.width = RAdd(dragStart.width, DxPercent)
        /\ HandleIncludes(resizeHandle, "top") =>
              /\ cropState.y = RAdd(dragStart.y, DyPercent)
              /\ cropState.height = RSub(dragStart.height, DyPercent)
              /\ RAdd(cropState.y, cropState.height) = RAdd(dragStart.y, dragStart.height)
        /\ HandleIncludes(resizeHandle, "bottom") =>
              /\ cropState.y = dragStart.y
              /\ cropState.height = RAdd(dragStart.height, DyPercent)
        /\ (~HandleIncludes(resizeHandle, "left") /\ ~HandleIncludes(resizeHandle, "right")) =>
              cropState.x = dragStart.x /\ cropState.width = dragStart.width
        /\ (~HandleIncludes(resizeHandle, "top") /\ ~HandleIncludes(resizeHandle, "bottom")) =>
              cropState.y = dragStart.y /\ cropState.height = dragStart.height

\* a corner resize that moved both near edges without being clamped
CornerResizedUnclamped ==
    /\ ev = "move" /\ resizeHandle = "top-left" /\ ~cropIsDragging
    /\ ValidCrop(LastCandidate)
    /\ cropState.x # dragStart.x /\ cropState.y # dragStart.y

\* C5: in resize mode the edge opposite the dragged handle stays where it was
\* at gesture start for every pointer delta, also when the size or the
\* position is clamped.
AnchorEdgeAlwaysFixed ==
    (ev = "move" /\ Resizing) =>
        /\ HandleIncludes(resizeHandle, "left") =>
              RAdd(cropState.x, cropState.width) = RAdd(dragStart.x, dragStart.width)
        /\ HandleIncludes(resizeHandle, "right") => cropState.x = dragStart.x
        /\ HandleIncludes(resizeHandle, "top") =>
              RAdd(cropState.y, cropState.height) = RAdd(dragStart.y, dragStart.height)
        /\ HandleIncludes(resizeHandle, "bottom") => cropState.y = dragStart.y

\* C6: a gesture whose pointer is back at (or never left) its start position
\* leaves the text position and the crop rectangle as they were before it.
DragIdempotence ==
    (gestures > 0 /\ ev \in {"move", "up"} /\ pointer = preGesture.p) =>
        /\ textOverlay.x = preGesture.text.x
        /\ textOverlay.y = preGesture.text.y
        /\ cropState = preGesture.crop

\* image-space point under the pointer p for transform t
ImagePointUnder(t, p) ==
    <<RDiv(RSub(RSub(Z(p[1]), Z(ContainerLeft)), t.x), t.scale),
      RDiv(RSub(RSub(Z(p[2]), Z(ContainerTop)), t.y), t.scale)>>

ScaleBound == RLe(<<1, 2>>, transform.scale) /\ RLe(transform.scale, <<10, 1>>)

\* a zoom-out that the lower clamp stopped at 0.5
ScaleClampedLow == ev = "wheel" /\ transform.scale = <<1, 2>>

\* C9: pan start snapshots the pointer and the translation; every pan move
\* sets translation = snapshot translation + (pointer - snapshot pointer) and
\* leaves the scale alone.
PanContract ==
    [][/\ (~isPanning /\ isPanning') =>
             panStart' = [startX |-> Z(pointer'[1]), startY |-> Z(pointer'[2]),
                          initialX |-> transform.x, initialY |-> transform.y]
       /\ (isPanning /\ ev' = "move") =>
             /\ panStart' = panStart
             /\ transform'.scale = transform.scale
             /\ transform'.x = RAdd(panStart.initialX, RSub(Z(pointer'[1]), panStart.startX))
             /\ transform'.y = RAdd(panStart.initialY, RSub(Z(pointer'[2]), panStart.startY))]_vars

\* a pan that has moved the image away from where the gesture started
PanMoved ==
    /\ isPanning /\ ev = "move"
    /\ transform.x # panStart.initialX
    /\ transform.y # panStart.initialY

\* clamp(pointerX - containerLeft, 0, containerWidth) / containerWidth * 100
ExpectedSlider ==
    LET d == pointer[1] - ContainerLeft
        w == container[1]
        c == IF d < 0 THEN 0 ELSE IF d > w THEN w ELSE d
    IN  Norm(c * 100, w)

\* C10: the slider starts at 50 and stays in [0, 100]; the start event and
\* every move while dragging set it to the clamped pointer offset in percent:
\* 100 at or beyond the right edge, 0 at or before the left edge.
ComparatorBoundary ==
    /\ RLe(Z(0), sliderPosition) /\ RLe(sliderPosition, Z(100))
    /\ gestures = 0 => sliderPosition = Z(50)
    /\ (ev = "down" \/ (ev = "move" /\ cmpIsDragging)) =>
          /\ sliderPosition = ExpectedSlider
          /\ pointer[1] >= ContainerLeft + container[1] => sliderPosition = Z(100)
          /\ pointer[1] <= ContainerLeft => sliderPosition = Z(0)

\* the start event alone put the slider at the right edge
SliderJumpedToRightEdge ==
    /\ ev = "down"
    /\ pointer[1] > ContainerLeft + container[1]
    /\ sliderPosition = Z(100)

\* C11: for positive image and container sizes the fit is height-filled
\* (height = containerH, width = containerH * naturalW / naturalH) when the
\* container is relatively wider than the image and width-filled otherwise,
\* centred horizontally, pinned to the top, and never larger than the
\* container; 1600x800 in 800x600 gives 800x400 at (0, 0).
FitComputation ==
    (img.complete /\ ev \in {"load", "resize"}) =>
        LET cW == container[1]
            cH == container[2]
            nW == img.naturalWidth
            nH == img.naturalHeight
            m  == initialImageMetrics
        IN  /\ cW * nH > nW * cH => m.height = Z(cH) /\ m.width = Norm(cH * nW, nH)
            /\ cW * nH <= nW * cH => m.width = Z(cW) /\ m.height = Norm(cW * nH, nW)
            /\ m.initialX = RDiv(RSub(Z(cW), m.width), Z(2))
            /\ m.initialY = Z(0)
            /\ RLe(m.width, Z(cW)) /\ RLe(m.height, Z(cH))
            /\ (container = <<800, 600>> /\ nW = 1600 /\ nH = 800) =>
                   m = [width |-> Z(800), height |-> Z(400),
                        initialX |-> Z(0), initialY |-> Z(0)]

\* the 1600x800 image has been fitted into the 800x600 container
FitExample ==
    /\ ev = "load"
    /\ container = <<800, 600>>
    /\ img.naturalWidth = 1600 /\ img.naturalHeight = 800
    /\ initialImageMetrics.width = Z(800) /\ initialImageMetrics.height = Z(400)

\* updateFit ran past its early return in the last event
FitCompleted ==
    \/ ev = "load" /\ fitEffect.img = "current" /\ img.naturalWidth # 0
    \/ /\ ev \in {"resize", "detached"}
       /\ fitEffect.img # "none" /\ fitEffect.container \in {"current", "reported"}
       /\ CapturedImg(img).complete /\ CapturedImg(img).naturalWidth # 0

\* C12: every completed fit recomputation leaves transform = {1, initialX,
\* initialY} of the metrics it stored, whatever zoom or pan was in effect, so
\* the 'is transformed' predicate is false right after it.
FitResetsTransform ==
    FitCompleted =>
        /\ transform = [scale |-> Z(1), x |-> initialImageMetrics.initialX,
                        y |-> initialImageMetrics.initialY]
        /\ ~isTransformed

\* a resize refitted the image after it had been zoomed
ZoomDiscardedByFit == ev = "resize" /\ FitCompleted /\ wheels > 0 /\ img.complete

\* C13: whenever a loaded image is shown in the zoomable canvas,
\* initialImageMetrics is the fit of its natural size into the container's
\* current size, also after the canvas or the container was re-mounted with
\* the same image.
MetricsFresh ==
    (CanvasMounted /\ img.complete) =>
        initialImageMetrics =
            FitMetrics(<<img.naturalWidth, img.naturalHeight>>, container)

\* C14: an export that ends because getContext('2d') returned null or the
\* image failed to load raises exactly one alert naming that failure, triggers
\* no download, starts no new export, and clears the in-progress flag.
ExportFailureReported ==
    [][ev' \in {"noctx", "loaderror"} =>
          /\ alerts' = alerts + 1
          /\ ev' = "noctx" => lastAlert' = "Canvas context could not be created."
          /\ ev' = "loaderror" =>
                lastAlert' = "Failed to load image for processing: [object Event]"
          /\ downloads' = downloads
          /\ exports' = exports
          /\ Len(pending') = Len(pending) - 1
          /\ ~isProcessingDownload']_vars

\* the only export ended without a drawing context: one alert, no download
ExportFailedOnContext ==
    /\ ev = "noctx"
    /\ exports = 1 /\ alerts = 1 /\ downloads = 0
    /\ pending = <<>> /\ ~isProcessingDownload

\* C15: every started export ends, with exactly one download or one alert,
\* after which the in-progress flag is false and rendered as false, so that
\* the next click starts an export; closing the modal neither cancels a
\* pending export nor changes what it produces.
ExportCompletes ==
    /\ (pending # <<>>) ~>
          (pending = <<>> /\ ~isProcessingDownload /\ ~renderedProcessing)
    /\ [][Len(pending') < Len(pending) =>
             downloads' + alerts' = downloads + alerts + 1]_vars
    /\ [][ev' = "close" =>
             /\ pending' = pending
             /\ isProcessingDownload' = isProcessingDownload
             /\ downloads' = downloads /\ alerts' = alerts]_vars

\* an export delivered its download although the modal had been closed
\* while it was in flight
ExportEndedWithModalClosed ==
    /\ ev = "ok" /\ ~isDownloadModalOpen
    /\ downloads = 1 /\ pending = <<>>

\* the window listeners registered by `owner`
ListenersOf(owner) == {l \in listeners : l.owner = owner}

\* C16: each controller's window move/end listeners are registered only
\* between its interaction start and its interaction end: while the text
\* drag, the crop box, the pan or the comparator is idle it has no window
\* listener, so after a gesture the registrations are those from before it.
ListenersGestureScoped ==
    /\ ~textIsDragging => ListenersOf("text") = {}
    /\ ~CropGestureActive => ListenersOf("crop") = {}
    /\ ~isPanning => ListenersOf("pan") = {}
    /\ ~cmpIsDragging => ListenersOf("cmp") = {}

\* C17: a component that has left the tree has no window listener left, also
\* when it left in the middle of a drag; once RightPanel has left, no listener
\* and no resize observation remains; and pointer moves and releases that
\* arrive afterwards do not change the text position, the crop rectangle, the
\* slider or the transform of what was removed.
ListenersReleased ==
    /\ [](/\ ~TextMounted => ListenersOf("text") = {}
          /\ ~CropMounted => ListenersOf("crop") = {}
          /\ ~ComparatorMounted => ListenersOf("cmp") = {}
          /\ ~isDownloadModalOpen => ListenersOf("modal") = {}
          /\ ~panelMounted => listeners = {} /\ fitEffect.container = "none")
    /\ [][ev' \in {"move", "up"} =>
             /\ ~TextMounted => textOverlay' = textOverlay
             /\ ~CropMounted => cropState' = cropState
             /\ ~ComparatorMounted => sliderPosition' = sliderPosition
             /\ ~panelMounted => transform' = transform]_vars

\* the text overlay left the tree while the pointer that was dragging it was
\* still down, and a pointer move arrived afterwards
TextUnmountedMidDrag ==
    /\ ev = "move"
    /\ preGesture.el = "text"
    /\ ~TextMounted
    /\ ListenersOf("text") = {}

\* C18: a mouse-down with a button other than the primary one starts no
\* canvas pan, no text drag, no crop move and no crop resize, and writes no
\* snapshot.
SecondaryButtonIgnored ==
    (ev = "down" /\ preGesture.src = "mouse" /\ preGesture.button # 0) =>
        /\ ~isPanning /\ ~textIsDragging /\ ~CropGestureActive
        /\ gestures = 1 =>
              /\ panStart.startX = Z(0) /\ panStart.startY = Z(0)
              /\ dragStartPos.x = Z(0) /\ dragStartPos.y = Z(0)
              /\ dragStart.mouseX = Z(0) /\ dragStart.mouseY = Z(0)

\* the element the last pointer-down hit
DownTarget == Target(preGesture.el, preGesture.handle)

\* C20: a touch start leaves every controller as the primary-button mouse
\* down on the same element at the same position leaves it: pan, text drag,
\* crop move/resize and comparator drag start, with the same snapshots, for
\* the touch exactly when they start for the mouse.
TouchMouseEquivalent ==
    (ev = "down" /\ preGesture.src = "touch" /\ gestures = 1) =>
        /\ isPanning =
              ("canvas" \in Reached(DownTarget, "mouse") /\ PanStarts(DownTarget, 0))
        /\ isPanning => panStart.startX = Z(pointer[1]) /\ panStart.startY = Z(pointer[2])
        /\ textIsDragging = ("text" \in Reached(DownTarget, "mouse"))
        /\ textIsDragging => dragStartPos.x = Z(pointer[1]) /\ dragStartPos.y = Z(pointer[2])
        /\ CropGestureActive = (preGesture.el \in {"cropBox", "cropHandle"})
        /\ cmpIsDragging = ("comparator" \in Reached(DownTarget, "mouse"))
        /\ cmpIsDragging => sliderPosition = ExpectedSlider

\* C19 (as the code has it): the value that drives the fit-to-screen button
\* is true exactly when an image, not a video, is current, the comparator is
\* not shown, and transform.scale # 1 or transform.x # initialX or
\* transform.y # initialY; after the reset action it is false and transform
\* is {1, initialX, initialY}.
IsTransformedWhenZoomable ==
    /\ isTransformed <=>
          /\ props.currentImage /\ ~props.generatedVideoUrl /\ ~showComparator
          /\ \/ transform.scale # Z(1)
             \/ transform.x # initialImageMetrics.initialX
             \/ transform.y # initialImageMetrics.initialY
    /\ ev = "reset" =>
          /\ ~isTransformed
          /\ transform = [scale |-> Z(1), x |-> initialImageMetrics.initialX,
                          y |-> initialImageMetrics.initialY]

\* the reset button was used on a zoomed image
ResetAfterZoom == ev = "reset" /\ wheels > 0 /\ ~isTransformed

\* C19 (as stated): the value is true exactly when transform.scale # 1 or
\* transform.x # initialX or transform.y # initialY, in every state.
IsTransformedIffMoved ==
    isTransformed <=>
        \/ transform.scale # Z(1)
        \/ transform.x # initialImageMetrics.initialX
        \/ transform.y # initialImageMetrics.initialY

\* positions of the call `name` in the last export's calls
StepsAt(name) == {i \in 1..Len(lastExport.steps) : lastExport.steps[i] = name}
CallsBefore(a, b) == \A i \in StepsAt(a), j \in StepsAt(b) : i < j

\* C21: within one export nothing is drawn before the image has loaded (and
\* nothing at all after a load error); the canvas is sized before the draw;
\* for jpeg the canvas is filled with white once, after sizing and before the
\* draw, and for png it is never filled; encoding and the one download
\* trigger come after the draw, in that order.
ExportStepOrder ==
    /\ StepsAt("onerror") # {} => lastExport.steps = <<"onerror">>
    /\ StepsAt("onload") \in {{}, {1}}
    /\ StepsAt("drawImage") # {} =>
          /\ StepsAt("onload") = {1}
          /\ Cardinality(StepsAt("setSize")) = 1
          /\ CallsBefore("setSize", "drawImage")
          /\ lastCanvas.mime = "image/jpeg" =>
                /\ Cardinality(StepsAt("fillWhite")) = 1
                /\ CallsBefore("setSize", "fillWhite")
                /\ CallsBefore("fillWhite", "drawImage")
                /\ lastCanvas.filled
          /\ lastCanvas.mime = "image/png" =>
                StepsAt("fillWhite") = {} /\ ~lastCanvas.filled
    /\ StepsAt("fillWhite") # {} => StepsAt("drawImage") # {}
    /\ Cardinality(StepsAt("drawImage")) <= 1
    /\ Cardinality(StepsAt("click")) <= 1
    /\ StepsAt("click") # {} =>
          /\ Cardinality(StepsAt("toDataURL")) = 1
          /\ CallsBefore("drawImage", "toDataURL")
          /\ CallsBefore("toDataURL", "click")
          /\ StepsAt("drawImage") # {}
    /\ StepsAt("toDataURL") # {} => StepsAt("drawImage") # {}
    /\ ev = "ok" => Cardinality(StepsAt("click")) = 1

\* a jpeg export ran to its download: fill, draw, encode, click
JpegExported ==
    /\ ev = "ok"
    /\ lastCanvas.mime = "image/jpeg"
    /\ lastExport.steps =
          <<"onload", "createCanvas", "getContext", "setSize", "fillWhite",
            "drawImage", "toDataURL", "click">>

\* C22: the canvas an export draws on is exactly (naturalWidth * scale) x
\* (naturalHeight * scale) for the scale chosen in the modal (1, 2 or 4),
\* whatever the format and the quality; scale 2 on 500x300 gives 1000x600.
ExportDimensionLaw ==
    StepsAt("setSize") # {} =>
        /\ lastExport.scale \in {1, 2, 4}
        /\ lastCanvas.width = lastExport.nat[1] * lastExport.scale
        /\ lastCanvas.height = lastExport.nat[2] * lastExport.scale
        /\ (lastExport.nat = <<500, 300>> /\ lastExport.scale = 2) =>
              lastCanvas.width = 1000 /\ lastCanvas.height = 600

\* the 500x300 image was exported at scale 2 as a jpeg of quality 10
ExportedAtDoubleScale ==
    /\ ev = "ok"
    /\ lastExport.nat = <<500, 300>> /\ lastExport.scale = 2
    /\ lastCanvas.mime = "image/jpeg" /\ lastCanvas.quality = 10
    /\ lastCanvas.width = 1000 /\ lastCanvas.height = 600

\* C23: the end of an export, by download or by error, leaves the modal-open
\* flag as it was, so with the modal open the next export starts from the
\* same modal; the flag goes from true to false only through the close
\* button, a backdrop click or Escape.
ModalStaysOpen ==
    [][/\ ev' \in Outcomes => isDownloadModalOpen' = isDownloadModalOpen
       /\ ev' = "exportStart" => isDownloadModalOpen /\ isDownloadModalOpen'
       /\ (isDownloadModalOpen /\ ~isDownloadModalOpen') =>
             ev' \in {"escape", "backdrop", "closeButton"}]_vars

\* a second export, as jpeg, was started from the modal that the first
\* export (a png download) left open
SecondExportOtherOptions ==
    /\ ev = "exportStart"
    /\ exports = 2 /\ downloads = 1
    /\ lastCanvas.mime = "image/png"
    /\ pending = <<[format |-> "jpeg", scale |-> 2, quality |-> 90]>>
    /\ isDownloadModalOpen

\* C24: Escape (with the modal open) and a backdrop click close the modal;
\* neither they nor any other key or click on the modal start or end an
\* export, trigger a download or an alert, or change the in-progress flag,
\* the options, the transform or a tool's state; a click on the modal body
\* leaves it open; Escape with the modal closed changes nothing.
CancelWithoutSideEffects ==
    [][/\ ev' \in {"escape", "key", "backdrop", "body", "closeButton"} =>
             UNCHANGED <<exports, pending, downloads, alerts, lastAlert, lastCanvas,
                         isProcessingDownload, renderedProcessing, modalOptions,
                         canvasVars, textVars, cropVars, cmpVars, props>>
       /\ (ev' = "escape" /\ isDownloadModalOpen) => ~isDownloadModalOpen'
       /\ ev' = "backdrop" => isDownloadModalOpen /\ ~isDownloadModalOpen'
       /\ ev' = "body" => isDownloadModalOpen /\ isDownloadModalOpen'
       /\ ev' = "key" => isDownloadModalOpen' = isDownloadModalOpen
       /\ (ev' = "escape" /\ ~isDownloadModalOpen) =>
             ~isDownloadModalOpen' /\ listeners' = listeners]_vars

\* Escape closed the modal over a zoomed image while an export was in flight
EscapeDuringExport ==
    /\ ev = "escape"
    /\ ~isDownloadModalOpen
    /\ Len(pending) = 1 /\ isProcessingDownload
    /\ wheels > 0 /\ transform.scale # Z(1)

\* the text position a move event at p asks for, in percent of the tool
\* wrapper, before clamping
RawTextXAt(p) ==
    RDiv(RMul(RAdd(dragStartPos.textX, RSub(Z(p[1]), dragStartPos.x)), Z(100)),
         ToolRect.width)
RawTextYAt(p) ==
    RDiv(RMul(RAdd(dragStartPos.textY, RSub(Z(p[2]), dragStartPos.y)), Z(100)),
         ToolRect.height)
\* the one the last move event asked for
RawTextX == RawTextXAt(pointer)
RawTextY == RawTextYAt(pointer)
\* v limited to [0, 100]
Percent(v) == IF RLt(v, Z(0)) THEN Z(0) ELSE IF RLt(Z(100), v) THEN Z(100) ELSE v

\* C25: after every move of a text drag the stored x and y are in [0, 100],
\* each the clamp of its own axis' requested value whatever the other axis
\* does, and text, color, size and font are those from before the gesture.
TextDragClamp ==
    /\ RLe(Z(0), textOverlay.x) /\ RLe(textOverlay.x, Z(100))
    /\ RLe(Z(0), textOverlay.y) /\ RLe(textOverlay.y, Z(100))
    /\ (ev = "move" /\ textIsDragging) =>
          /\ textOverlay.x = Percent(RawTextX)
          /\ textOverlay.y = Percent(RawTextY)
          /\ textOverlay.text = preGesture.text.text
          /\ textOverlay.color = preGesture.text.color
          /\ textOverlay.size = preGesture.text.size
          /\ textOverlay.font = preGesture.text.font

\* a drag move that was clamped in y only
TextClampedInYOnly ==
    /\ ev = "move" /\ textIsDragging
    /\ RLt(Z(100), RawTextY) /\ textOverlay.y = Z(100)
    /\ RLt(Z(0), RawTextX) /\ RLt(RawTextX, Z(100)) /\ textOverlay.x = RawTextX

AnyGestureActive == textIsDragging \/ CropGestureActive \/ isPanning \/ cmpIsDragging

\* C26: a mouse-up ends whatever gesture is active (text drag, crop move or
\* resize, pan, comparator drag) and a touch-end ends the two gestures a
\* touch can start (text drag, comparator drag), with no further condition;
\* so a gesture that has started is idle again once the pointer is released.
GestureEndUnconditional ==
    /\ [][PointerUp("mouse") => ~AnyGestureActive']_vars
    /\ [][PointerUp("touch") => ~textIsDragging' /\ ~cmpIsDragging']_vars
    /\ AnyGestureActive ~> ~AnyGestureActive

\* a text drag that moved the text has ended
TextDragEnded ==
    /\ ev = "up"
    /\ gestures > 0
    /\ ~AnyGestureActive
    /\ textOverlay.x # preGesture.text.x

\* C27: a mouse-down on the text's delete button starts no text drag and no
\* pan and writes no snapshot; the click on it sets text to "" and leaves
\* color, size, font, x and y as they were, starts no drag and no pan, and
\* with the empty text the text overlay is not shown any more.
TextDeleteAffordance ==
    [][/\ (ev' = "down" /\ preGesture'.src = "mouse" /\ preGesture'.el = "textDelete") =>
             UNCHANGED <<textIsDragging, dragStartPos, isPanning, panStart, textOverlay>>
       /\ ev' = "click" =>
             /\ textOverlay' = [textOverlay EXCEPT !.text = ""]
             /\ ~textIsDragging'
             /\ isPanning' = isPanning
             /\ ~showTextOverlay'
             /\ ~TextMounted']_vars

\* the delete button was pressed and clicked: the text is gone, its other
\* attributes are kept and nothing is being dragged
TextDeletedByButton ==
    /\ ev = "click"
    /\ preGesture.src = "mouse" /\ preGesture.el = "textDelete"
    /\ textOverlay = [preGesture.text EXCEPT !.text = ""]
    /\ ~textIsDragging /\ ~isPanning
    /\ ~showTextOverlay

\* C28: a mouse-down on a handle starts resize mode with that handle and not
\* move mode; a mouse-down on the box body starts move mode with no handle;
\* either one snapshots the pointer and the crop rectangle of that moment;
\* the move flag and a handle are never both set; a mouse-up clears both.
CropGestureMode ==
    /\ [](~(cropIsDragging /\ resizeHandle # NoHandle))
    /\ [][/\ (ev' = "down" /\ preGesture'.src = "mouse" /\ preGesture'.el = "cropHandle") =>
                /\ preGesture'.handle \in Handles
                /\ resizeHandle' = preGesture'.handle
                /\ ~cropIsDragging'
          /\ (ev' = "down" /\ preGesture'.src = "mouse" /\ preGesture'.el = "cropBox") =>
                /\ cropIsDragging'
                /\ resizeHandle' = NoHandle
          /\ (/\ ev' = "down" /\ preGesture'.src = "mouse"
              /\ preGesture'.el \in {"cropBox", "cropHandle"}) =>
                /\ cropState' = cropState
                /\ dragStart' = [mouseX |-> Z(pointer'[1]), mouseY |-> Z(pointer'[2]),
                                 x |-> cropState.x, y |-> cropState.y,
                                 width |-> cropState.width, height |-> cropState.height]
          /\ PointerUp("mouse") => ~cropIsDragging' /\ resizeHandle' = NoHandle]_vars

\* the bottom-right handle was pressed: resize mode, with the snapshot of the
\* 30 x 20 rectangle at (20, 40)
ResizeStartedOnHandle ==
    /\ ev = "down"
    /\ resizeHandle = "bottom-right" /\ ~cropIsDragging
    /\ dragStart = [mouseX |-> Z(40), mouseY |-> Z(50), x |-> Z(20), y |-> Z(40),
                    width |-> Z(30), height |-> Z(20)]

\* v limited to [lo, hi]
Limit(v, lo, hi) == IF RLt(v, lo) THEN lo ELSE IF RLt(hi, v) THEN hi ELSE v

\* C29: the rectangle a crop move or resize stores is the candidate with
\* width and height limited to [5, 100] first and then x limited to
\* [0, 100 - width'] and y to [0, 100 - height'] for the limited sizes, also
\* when the candidate is both too large and out of place.
CropClampOrder ==
    (ev = "move" /\ CropGestureActive) =>
        LET c == LastCandidate
            w == Limit(c.width, Z(5), Z(100))
            h == Limit(c.height, Z(5), Z(100))
        IN  /\ cropState.width = w
            /\ cropState.height = h
            /\ cropState.x = Limit(c.x, Z(0), RSub(Z(100), w))
            /\ cropState.y = Limit(c.y, Z(0), RSub(Z(100), h))

\* a resize asked for a rectangle wider than the image that also starts left
\* of it: the width became 100 and x was limited against that width
CropTooLargeAndMisplaced ==
    /\ ev = "move" /\ Resizing
    /\ RLt(Z(100), LastCandidate.width) /\ RLt(LastCandidate.x, Z(0))
    /\ cropState.width = Z(100) /\ cropState.x = Z(0)

\* C30: a gesture's snapshot is written by its start event (the pointer
\* position of that event) and no move event modifies it, and after every
\* move of a text drag or of a crop move or resize the stored state is a
\* function of the snapshot, the pointer position of that move and the
\* wrapper's size alone: whatever moves came before, and whatever they
\* were clamped to, the same pointer position gives the same state.
SnapshotDragMath ==
    [][/\ (PointerMove("mouse", pointer') \/ PointerMove("touch", pointer')) =>
             /\ UNCHANGED <<dragStartPos, dragStart, panStart>>
             /\ textIsDragging =>
                   /\ textOverlay'.x = Percent(RawTextXAt(pointer'))
                   /\ textOverlay'.y = Percent(RawTextYAt(pointer'))
       /\ (PointerMove("mouse", pointer') /\ CropGestureActive) =>
             LET c == CropCandidate(dragStart, cropIsDragging, resizeHandle, ToolRect,
                                    pointer')
                 w == Limit(c.width, Z(5), Z(100))
                 h == Limit(c.height, Z(5), Z(100))
             IN  /\ cropState' = [x |-> Limit(c.x, Z(0), RSub(Z(100), w)),
                                  y |-> Limit(c.y, Z(0), RSub(Z(100), h)),
                                  width |-> w, height |-> h]
                 /\ (cropIsDragging /\ Z(pointer'[1]) = dragStart.mouseX
                     /\ Z(pointer'[2]) = dragStart.mouseY) =>
                       cropState' = [x |-> dragStart.x, y |-> dragStart.y,
                                     width |-> dragStart.width, height |-> dragStart.height]
       /\ (ev' = "down" /\ textIsDragging' /\ preGesture'.el = "text") =>
             dragStartPos'.x = Z(pointer'[1]) /\ dragStartPos'.y = Z(pointer'[2])
       /\ (ev' = "down" /\ CropGestureActive'
           /\ preGesture'.el \in {"cropBox", "cropHandle"}) =>
             dragStart'.mouseX = Z(pointer'[1]) /\ dragStart'.mouseY = Z(pointer'[2])]_vars

\* a crop move gesture whose pointer is at a position other than its start
\* and whose rectangle was limited at the image's right edge
CropMoveClampedAtEdge ==
    /\ ev = "move" /\ cropIsDragging
    /\ pointer # preGesture.p
    /\ RLt(Z(100), RAdd(LastCandidate.x, LastCandidate.width))
    /\ RAdd(cropState.x, cropState.width) = Z(100)
    /\ cropState.width = dragStart.width

\* the overlay tools whose show flag is set, and those in the tree
ToolsShown ==
    {t \in {"comparator", "text", "crop", "mask"} :
        \/ t = "comparator" /\ showComparator
        \/ t = "text" /\ showTextOverlay
        \/ t = "crop" /\ showCropBox
        \/ t = "mask" /\ showMaskingCanvas}
ToolsMounted ==
    {t \in {"comparator", "text", "crop", "mask"} :
        \/ t = "comparator" /\ ComparatorMounted
        \/ t = "text" /\ TextMounted
        \/ t = "crop" /\ CropMounted
        \/ t = "mask" /\ MaskMounted}

\* C31: whatever the mode, editFunction, isMaskingActive, showComparator flag,
\* text content and image presence, at most one of comparator, text overlay,
\* crop box and masking canvas is shown (by its flag and in the tree), and
\* while the comparator or a video is shown canZoomPan is false and there is
\* no zoom/pan canvas to wheel or press on.
OneOverlayTool ==
    /\ Cardinality(ToolsShown) <= 1
    /\ Cardinality(ToolsMounted) <= 1
    /\ (showComparator \/ props.generatedVideoUrl) =>
          /\ ~canZoomPan
          /\ Target("canvas", NoHandle) \notin MountedTargets

\* the comparison switch is on with a comparison image while the text tool
\* is selected: the text overlay is in the tree and the comparator is not
ComparatorRequestedWithTextTool ==
    /\ props.showComparator /\ props.comparisonImage /\ ~props.isMaskingActive
    /\ TextMounted
    /\ ToolsMounted = {"text"}

\* a mousemove or touchmove on window at the pointer position the step records
AnyPointerMove == PointerMove("mouse", pointer') \/ PointerMove("touch", pointer')

\* C32: a pointer move delivered while no gesture is active (before any start
\* or after the end event) leaves the transform, the text overlay, the crop
\* rectangle and the slider position unchanged; and each controller that is
\* idle leaves its own value unchanged whatever the others are doing.
IdleMoveChangesNothing ==
    [][AnyPointerMove =>
          /\ ~AnyGestureActive =>
                UNCHANGED <<transform, textOverlay, cropState, sliderPosition>>
          /\ ~isPanning => UNCHANGED transform
          /\ ~textIsDragging => UNCHANGED textOverlay
          /\ ~CropGestureActive => UNCHANGED cropState
          /\ ~cmpIsDragging => UNCHANGED sliderPosition]_vars

\* a pointer move after a gesture has ended and changed something, at a
\* position other than the one where that gesture started
MovedAfterGestureEnd ==
    /\ ev = "move" /\ ~AnyGestureActive
    /\ gestures > 0
    /\ pointer # preGesture.p
    /\ \/ transform.x # initialImageMetrics.initialX
       \/ textOverlay.x # Z(50)
       \/ cropState \notin InitialCrops
       \/ sliderPosition # Z(50)

\* C33: when a wheel zoom happened during a pan gesture, a pan move that
\* follows it at the pointer position of the wheel event leaves the transform
\* as the zoom set it, so the image point under the pointer stays there.
ZoomDuringPanKept ==
    [][(PointerMove("mouse", pointer') /\ isPanning /\ ev = "wheel" /\ pointer' = pointer) =>
          /\ transform' = transform
          /\ ImagePointUnder(transform', pointer') = ImagePointUnder(transform, pointer)]_vars

====
